---- MODULE Spec2Model ----
(***************************************************************************)
(* augment_data.py: the expansion of a recorded driving dataset.  One      *)
(* source record (camera image, steering angle, throttle) is expanded by   *)
(* flip, dark, sun and noise into a list of records, and every record of   *)
(* the list is appended to a destination tub.                              *)
(*                                                                         *)
(* Arrays are modelled with their storage: a record's image is a reference *)
(* (buffer, reversed-columns flag) into a heap of arrays, so that a numpy  *)
(* view and an in-place write are what they are in the program.  Angles    *)
(* and throttles are in tenths (4 is 0.4).                                 *)
(***************************************************************************)
EXTENDS Integers, Sequences, FiniteSets, TLC

VARIABLES
    inp,                \* argv, the tubs on disk and the directories at start
    pc,                 \* position of the script
    err,                \* the exception that ended the run, or "none"
    args,               \* argparse's namespace
    fs_dirs,            \* the directories that exist
    fs_meta,            \* the content of meta.json in each directory
    tub_i,              \* index of the tub being read (line 95)
    rec_i,              \* index of the record being read (line 96)
    heap,               \* the live arrays
    augmented_records,  \* line 42
    stage_records,      \* darkened_records / sun_records / noise_records
    it,                 \* position of "for rec in augmented_records"
    k,                  \* position of "for _ in range(count)"
    put_i,              \* position of the loop of line 98
    new_tub,            \* the records appended to the destination
    i,                  \* line 94
    dots,               \* progress marks written to stdout
    expansions,         \* history: the lists augment_single_record returned
    call,               \* library harness: the transform called and its input
    ret,                \* library harness: the record it returned
    draw                \* library harness: the random values it drew

vars == <<inp, pc, err, args, fs_dirs, fs_meta, tub_i, rec_i, heap,
          augmented_records, stage_records, it, k, put_i, new_tub, i, dots, expansions, call, ret, draw>>

\* ------------------------------------------------------------------ bounds

\* Counts given on the command line range over MinCount..MaxCount.
MaxCount == 2
\* Darkening amounts of the pipeline range over 0..MaxDarkAmount.
MaxDarkAmount == 2
\* Noise amounts of the library harness range over -1..MaxNoiseAmount.
MaxNoiseAmount == 1
\* Records in the first tub on disk.
MaxRecords == 2

\* ----------------------------------------------------------------- helpers

Min(a, b) == IF a < b THEN a ELSE b

Max(a, b) == IF a > b THEN a ELSE b

RECURSIVE Flatten(_)
Flatten(ss) == IF ss = <<>> THEN <<>> ELSE Head(ss) \o Flatten(Tail(ss))

\* All sequences that take their n-th element from the n-th set of cands.
RECURSIVE SeqProduct(_)
SeqProduct(cands) ==
    IF cands = <<>> THEN {<<>>}
    ELSE {<<x>> \o rest : x \in Head(cands), rest \in SeqProduct(Tail(cands))}

\* ------------------------------------------------------------------ arrays

CAM_IMG_ARRAY == "image"
USER_ANGLE == "angle"
USER_THROTTLE == "throttle"

\* numpy's fixed-width integer types: a value stored in one wraps to its range.
Wrap(v, dtype) ==
    CASE dtype = "uint8" -> v % 256
      [] dtype = "int16" -> ((v + 32768) % 65536) - 32768
      [] OTHER -> v

Height(shape) == shape[1]
Width(shape) == shape[2]
\* Values per image position: the third axis of a 3D array, one for a 2D array.
Chan(shape) == IF Len(shape) >= 3 THEN shape[3] ELSE 1

\* Row-major position (1-based) of element (y, x, c), all 0-based.
Flat(shape, y, x, c) == (y * Width(shape) + x) * Chan(shape) + c + 1

YOf(shape, p) == ((p - 1) \div Chan(shape)) \div Width(shape)
XOf(shape, p) == ((p - 1) \div Chan(shape)) % Width(shape)
COf(shape, p) == (p - 1) % Chan(shape)

\* a[:, ::-1]: the columns in reverse order.
RevAxis1(shape, data) ==
    [p \in 1..Len(data) |->
        data[Flat(shape, YOf(shape, p), Width(shape) - 1 - XOf(shape, p), COf(shape, p))]]

\* The array a reference denotes: the buffer, seen through the view.
Read(h, ref) ==
    LET a == h[ref.buf]
    IN [shape |-> a.shape, dtype |-> a.dtype,
        data |-> IF ref.rev THEN RevAxis1(a.shape, a.data) ELSE a.data]

\* np.array(a, dtype=t): a copy, every value cast to t.
AsType(a, t) ==
    [shape |-> a.shape, dtype |-> t,
     data |-> [p \in 1..Len(a.data) |-> Wrap(a.data[p], t)]]

\* random.randint(lo, hi) and np.random.random_integers(lo, hi): the values
\* that can be drawn, and a ValueError on an empty range.
RandInt(lo, hi) ==
    IF lo > hi THEN {[err |-> "ValueError", v |-> 0]}
    ELSE {[err |-> "none", v |-> r] : r \in lo..hi}

\* ------------------------------------------------- clip_image_values

\* Lines 178-179: the writes into the array that was passed.
clip_in_place(img) ==
    LET high == [p \in 1..Len(img.data) |->
                    IF img.data[p] > 255 THEN 255 ELSE img.data[p]]
    IN [img EXCEPT !.data = [p \in 1..Len(high) |->
                                IF high[p] < 0 THEN 0 ELSE high[p]]]

\* A cast to uint8 with no saturation before it.
clip_cast_only(img) == AsType(img, "uint8")

\* Lines 177-180: saturate in place, then return a uint8 copy.
clip_image_values(img) == AsType(clip_in_place(img), "uint8")

\* ---------------------------------------------- create_circular_mask

\* Lines 170-174 with center and radius given (sun always gives both): 1 where
\* sqrt((X - cx)^2 + (Y - cy)^2) <= radius, else 0.
create_circular_mask(h, w, center, radius) ==
    LET shape == <<h, w>>
    IN [shape |-> shape, dtype |-> "bool",
        data |-> [p \in 1..(h * w) |->
            LET dx == XOf(shape, p) - center[1]
                dy == YOf(shape, p) - center[2]
            IN IF radius >= 0 /\ dx * dx + dy * dy <= radius * radius
               THEN 1 ELSE 0]]

\* ----------------------------------------------------- gaussian_filter

\* sigma of line 146.
Sigma == 5
\* scipy's kernel reaches int(truncate * sigma + 0.5) positions to each side,
\* truncate = 4.0.
KernelRadius == 4 * Sigma
\* The weights exp(-k^2 / (2 sigma^2)) / sum for k = 0..20, times KernelScale
\* and rounded to the nearest integer.
KernelScale == 10 * 1000 * 1000
GaussKernel == <<797917, 782117, 736570, 666476, 579406, 483961, 388388,
                 299467, 221851, 157907, 107986, 70952, 44791, 27167, 15832,
                 8864, 4768, 2465, 1224, 584, 268>>
Weight(kk) == GaussKernel[(IF kk < 0 THEN -kk ELSE kk) + 1]

\* mode='reflect': position j of a line of n values, extended (d c b a | a b c d | d c b a).
Reflect(j, n) ==
    LET m == j % (2 * n)
    IN IF m < n THEN m ELSE 2 * n - 1 - m

RECURSIVE SumTo(_, _)
SumTo(f, n) == IF n = 0 THEN 0 ELSE f[n] + SumTo(f, n - 1)

\* The values one output position of gaussian_filter1d can take.  The filter
\* works in floating point and stores the result in the uint8 output by
\* truncation; the integer weights are each within 1/2 of the scaled real
\* weight, so the real sum lies within half the sum of the tapped values of
\* the integer sum, and every integer part in that interval is possible.
GaussCandidates(data, shape, axis, p) ==
    LET n == shape[axis + 1]
        taps == [t \in 1..(2 * KernelRadius + 1) |->
                    LET off == t - KernelRadius - 1
                        y == IF axis = 0 THEN Reflect(YOf(shape, p) + off, n)
                             ELSE YOf(shape, p)
                        x == IF axis = 1 THEN Reflect(XOf(shape, p) + off, n)
                             ELSE XOf(shape, p)
                    IN data[Flat(shape, y, x, 0)]]
        s == SumTo([t \in DOMAIN taps |-> taps[t] * Weight(t - KernelRadius - 1)],
                   Len(taps))
        e == (SumTo(taps, Len(taps)) + 1) \div 2
    IN Max(0, (s - e) \div KernelScale) .. Min(255, (s + e) \div KernelScale)

\* gaussian_filter1d along one axis: the arrays it can return.
GaussPass(data, shape, axis) ==
    SeqProduct([p \in 1..Len(data) |-> GaussCandidates(data, shape, axis, p)])

\* gaussian_filter(mask, sigma=5) on a 2D uint8 array: axis 0, then axis 1 on
\* the uint8 result of axis 0.
gaussian_filter(mask) ==
    UNION {GaussPass(m0, mask.shape, 1) : m0 \in GaussPass(mask.data, mask.shape, 0)}

\* ---------------------------------------------------------- transforms

\* What a transform hands back: the exception it raised or "none", the heap
\* after it, and the record it returned.
Returned(h, record) == [err |-> "none", heap |-> h, record |-> record]
Raised(e, h, record) == [err |-> e, heap |-> h, record |-> record]

\* flip with the angle of the input kept.
flip_keep_angle(h, record) ==
    IF Len(h[record[CAM_IMG_ARRAY].buf].shape) # 3
    THEN Raised("IndexError", h, record)
    ELSE Returned(h,
            [record EXCEPT
                ![CAM_IMG_ARRAY] = [buf |-> record[CAM_IMG_ARRAY].buf,
                                    rev |-> ~record[CAM_IMG_ARRAY].rev]])

\* Lines 113-117.  The deep copy's own image is dropped at line 115, which
\* stores a view of the input's array: [:, ::-1, :] needs three axes.
flip(h, record) ==
    IF Len(h[record[CAM_IMG_ARRAY].buf].shape) # 3
    THEN Raised("IndexError", h, record)
    ELSE Returned(h,
            [record EXCEPT
                ![CAM_IMG_ARRAY] = [buf |-> record[CAM_IMG_ARRAY].buf,
                                    rev |-> ~record[CAM_IMG_ARRAY].rev],
                ![USER_ANGLE] = -record[USER_ANGLE]])

\* The noise arrays np.random.random_integers(-amount, amount, shape) can return.
NoiseDraws(n, amount) ==
    IF -amount > amount THEN {[err |-> "ValueError", v |-> <<>>]}
    ELSE {[err |-> "none", v |-> a] :
            a \in SeqProduct([p \in 1..n |-> (-amount)..amount])}

\* Lines 120-126: uint8 + int64 is a new int64 array.
noise(h, record, amount, rnd) ==
    IF rnd.err # "none" THEN Raised(rnd.err, h, record)
    ELSE
        LET img == Read(h, record[CAM_IMG_ARRAY])
            sum == [shape |-> img.shape, dtype |-> "int64",
                    data |-> [p \in 1..Len(img.data) |->
                                Wrap(img.data[p] + rnd.v[p], "int64")]]
            noised_img == clip_image_values(sum)
        IN Returned(Append(h, noised_img),
                    [record EXCEPT ![CAM_IMG_ARRAY] =
                        [buf |-> Len(h) + 1, rev |-> FALSE]])

\* Lines 129-134: an int16 copy minus random.randint(1, amount).
dark(h, record, amount, rnd) ==
    IF rnd.err # "none" THEN Raised(rnd.err, h, record)
    ELSE
        LET src == AsType(Read(h, record[CAM_IMG_ARRAY]), "int16")
            img == [src EXCEPT !.data = [p \in 1..Len(src.data) |->
                                            Wrap(src.data[p] - rnd.v, "int16")]]
        IN Returned(Append(h, clip_image_values(img)),
                    [record EXCEPT ![CAM_IMG_ARRAY] =
                        [buf |-> Len(h) + 1, rev |-> FALSE]])

\* Lines 142-144: the mask, reinterpreted as uint8 and multiplied by 200.
SunMask(shape, sun_x, sun_y, size) ==
    LET mask == create_circular_mask(Height(shape), Width(shape), <<sun_x, sun_y>>, size)
    IN [shape |-> mask.shape, dtype |-> "uint8",
        data |-> [p \in 1..Len(mask.data) |-> Wrap(mask.data[p] * 200, "uint8")]]

\* Lines 140-146: the centres int(random.random() * n) can give and, for
\* each, the arrays the blurred mask can be.
SunDraws(h, record, size) ==
    LET shape == h[record[CAM_IMG_ARRAY].buf].shape
    IN UNION {{[x |-> sx, y |-> sy, blur |-> b] :
                    b \in gaussian_filter(SunMask(shape, sx, sy, size))} :
              sx \in 0..(Width(shape) - 1), sy \in 0..(Height(shape) - 1)}

\* Lines 137-154: an int16 copy, the blurred mask added in place to a 2D image
\* or to channels 0, 1, 2 of a 3D one.
sun(h, record, size, rnd) ==
    LET img == AsType(Read(h, record[CAM_IMG_ARRAY]), "int16")
        shape == img.shape
        at(p) == rnd.blur[Flat(<<Height(shape), Width(shape)>>,
                               YOf(shape, p), XOf(shape, p), 0)]
        added == [img EXCEPT !.data = [p \in 1..Len(img.data) |->
                    IF Len(shape) = 2 \/ (Len(shape) = 3 /\ COf(shape, p) < 3)
                    THEN Wrap(img.data[p] + at(p), "int16")
                    ELSE img.data[p]]]
    IN IF Len(shape) = 3 /\ shape[3] < 3
       THEN Raised("IndexError", h, record)
       ELSE Returned(Append(h, clip_image_values(added)),
                     [record EXCEPT ![CAM_IMG_ARRAY] =
                        [buf |-> Len(h) + 1, rev |-> FALSE]])

\* ------------------------------------------------- the library harness
\* One call of one transform on one record: the transforms as functions.

\* A record: the image, the labels and, as history, the transform that made
\* it and the position in the working set of the record it was made from.
NoRecord == [image |-> [buf |-> 0, rev |-> FALSE], angle |-> 0, throttle |-> 0,
             made |-> [op |-> "none", parent |-> 0]]
NoDraw == [amt |-> 0, x |-> 0, y |-> 0, blur |-> <<>>, noise |-> <<>>]
NoCall == [op |-> "none", amount |-> 0, record |-> NoRecord, before |-> <<>>]
NoArgs == [tub |-> <<>>, dest |-> "", flip |-> FALSE, dark |-> 0, dark_amount |-> 0,
           sun |-> 0, sun_size |-> 0, noise |-> 0, noise_amount |-> 0]
NoInput == [argv |-> NoArgs, cwd_is_parent |-> FALSE, dirs |-> {}, has_meta |-> FALSE]

\* Intensities at the ends and in the middle of the range.
TestValues == {0, 1, 128, 255}
TestColours == {<<0, 1, 128>>, <<255, 254, 128>>}

\* Images of the harness: 2D of 1x2 and 2x2, 3D of 1x2x3 and 1x2x1.
TestImages ==
    {[shape |-> <<1, 2>>, dtype |-> "uint8", data |-> <<a, b>>] :
        a \in TestValues, b \in TestValues}
    \cup {[shape |-> <<2, 2>>, dtype |-> "uint8", data |-> <<a, b, c, d>>] :
        a \in {0, 128}, b \in {0, 128}, c \in {0, 128}, d \in {128, 255}}
    \cup {[shape |-> <<1, 2, 3>>, dtype |-> "uint8", data |-> a \o b] :
        a \in TestColours, b \in TestColours}
    \cup {[shape |-> <<1, 2, 1>>, dtype |-> "uint8", data |-> <<a, b>>] :
        a \in {1, 128}, b \in {128, 255}}

TestDarkAmounts == {0, 1, 20}
TestNoiseAmounts == (-1)..MaxNoiseAmount
TestSunSizes == (-1)..1

TestCalls ==
    {[op |-> "flip", amount |-> 0]}
    \cup {[op |-> "dark", amount |-> a] : a \in TestDarkAmounts}
    \cup {[op |-> "sun", amount |-> a] : a \in TestSunSizes}
    \cup {[op |-> "noise", amount |-> a] : a \in TestNoiseAmounts}

PipelineIdle ==
    /\ inp = NoInput /\ args = NoArgs /\ fs_dirs = {} /\ fs_meta = <<>>
    /\ tub_i = 0 /\ rec_i = 0 /\ augmented_records = <<>> /\ stage_records = <<>>
    /\ it = 0 /\ k = 0 /\ put_i = 0 /\ new_tub = <<>> /\ i = 0 /\ dots = 0
    /\ expansions = <<>>

PipelineUnchanged ==
    UNCHANGED <<inp, args, fs_dirs, fs_meta, tub_i, rec_i, augmented_records,
                stage_records, it, k, put_i, new_tub, i, dots, expansions>>

InitT ==
    /\ PipelineIdle
    /\ pc = "call" /\ err = "none" /\ ret = NoRecord /\ draw = NoDraw
    /\ \E img \in TestImages, c \in TestCalls, view \in BOOLEAN :
        /\ view => Len(img.shape) = 3
        /\ heap = <<img>>
        /\ call = [op |-> c.op, amount |-> c.amount,
                   record |-> [image |-> [buf |-> 1, rev |-> view],
                               angle |-> 4, throttle |-> 3,
                               made |-> [op |-> "source", parent |-> 0]],
                   before |-> <<img>>]

\* The harness takes what the transform handed back.
Taken(res, d) ==
    /\ pc' = IF res.err = "none" THEN "return" ELSE "raise"
    /\ err' = res.err
    /\ heap' = res.heap
    /\ ret' = IF res.err = "none" THEN res.record ELSE NoRecord
    /\ draw' = d
    /\ UNCHANGED call
    /\ PipelineUnchanged

TFlip ==
    /\ pc = "call" /\ call.op = "flip"
    /\ Taken(flip(heap, call.record), NoDraw)

TDark ==
    /\ pc = "call" /\ call.op = "dark"
    /\ \E rnd \in RandInt(1, call.amount) :
        Taken(dark(heap, call.record, call.amount, rnd),
              [NoDraw EXCEPT !.amt = rnd.v])

TSun ==
    /\ pc = "call" /\ call.op = "sun"
    /\ \E rnd \in SunDraws(heap, call.record, call.amount) :
        Taken(sun(heap, call.record, call.amount, rnd),
              [NoDraw EXCEPT !.x = rnd.x, !.y = rnd.y, !.blur = rnd.blur])

TNoise ==
    /\ pc = "call" /\ call.op = "noise"
    /\ \E rnd \in NoiseDraws(Len(heap[call.record[CAM_IMG_ARRAY].buf].data), call.amount) :
        Taken(noise(heap, call.record, call.amount, rnd),
              [NoDraw EXCEPT !.noise = rnd.v])

NextT == TFlip \/ TDark \/ TSun \/ TNoise

SpecT == InitT /\ [][NextT]_vars

\* ------------------------------------------------------- the script's inputs

\* The tubs on disk: tub 1 holds MaxRecords records, tub 2 holds one.
TubLen(t) == IF t = 1 THEN MaxRecords ELSE 1
TubMeta(t) == IF t = 1 THEN "meta1" ELSE "meta2"

\* tub.get_record(ix): every record of the disk has its own labels and image,
\* a 1x2 RGB frame.
SourceLabels(t, ix) ==
    [angle |-> 7 - 3 * ix - 5 * (t - 1), throttle |-> 2 + ix + 3 * (t - 1)]
SourceImage(t, ix) ==
    [shape |-> <<1, 2, 3>>, dtype |-> "uint8",
     data |-> <<90 + 10 * ix, 100 + 20 * t, 110, 200 + 10 * ix, 210 + 20 * t, 255>>]

\* Where a path leads: "aug" is relative to the working directory, the
\* default destination is the directory "aug" beside the first tub.
Locations == {"sibling", "cwd", "dest"}
RelativeAug(in) == IF in.cwd_is_parent THEN "sibling" ELSE "cwd"

MinCount == 0 - 1
Counts == MinCount..MaxCount
DarkAmounts == 0..MaxDarkAmount
SunSizes == {0, 1}
NoiseAmounts == {0, 1}
\* --tub: not given (<<>>), or the tubs it names.
TubArgs == {<<>>, <<1>>, <<2>>, <<2, 1>>}

Argvs ==
    [tub : TubArgs, dest : {"aug", "dest"}, flip : BOOLEAN,
     dark : Counts, dark_amount : DarkAmounts,
     sun : Counts, sun_size : SunSizes,
     noise : Counts, noise_amount : NoiseAmounts]

\* The destination the run is meant to write to.
Destination(argv) == IF argv.dest = "aug" THEN "sibling" ELSE "dest"

\* The directories a run can tell apart.
Relevant(argv, cwd_is_parent) ==
    IF argv.dest # "aug" THEN {"dest"}
    ELSE IF cwd_is_parent THEN {"sibling"} ELSE {"sibling", "cwd"}

\* The inputs are varied one kind at a time.  The surroundings (destination,
\* working directory, directories present) are varied under a plain
\* configuration, and the configuration in plain surroundings; the stages are
\* combined where no draw has more than one visible outcome (a darkening of
\* at most 1, a sun that covers the frame, a noise of 0), and the draws are
\* varied under configurations of a single stage, those of noise, one value
\* for each value of the image, on the tub of one record with one variant.
PlainArgv(argv) ==
    /\ ~argv.flip /\ argv.sun = 0 /\ argv.noise = 0
    /\ argv.dark \in {0, MinCount} /\ argv.dark_amount = 1 /\ argv.sun_size = 1
    /\ argv.noise_amount = 0
PlainSurroundings(in) ==
    in.argv.dest = "dest" /\ in.dirs = {} /\ ~in.has_meta
OneOutcome(argv) ==
    argv.dark_amount <= 1 /\ argv.sun_size >= 1 /\ argv.noise_amount = 0
SingleStage(argv) ==
    /\ ~argv.flip
    /\ Cardinality({c \in {"dark", "sun", "noise"} : argv[c] > 0}) <= 1
    /\ argv.noise_amount > 0 => argv.tub = <<2>> /\ argv.noise <= 1

Inputs ==
    {in \in [argv : Argvs, cwd_is_parent : BOOLEAN,
             dirs : SUBSET Locations, has_meta : BOOLEAN] :
        /\ PlainArgv(in.argv) \/ PlainSurroundings(in)
        /\ OneOutcome(in.argv) \/ SingleStage(in.argv)
        /\ in.dirs \subseteq Relevant(in.argv, in.cwd_is_parent)
        /\ in.argv.dest # "aug" => ~in.cwd_is_parent
        /\ in.has_meta => Destination(in.argv) \in in.dirs}

HarnessIdle == call = NoCall /\ ret = NoRecord /\ draw = NoDraw

Init ==
    /\ inp \in Inputs
    /\ pc = "main" /\ err = "none" /\ args = NoArgs
    /\ fs_dirs = inp.dirs
    /\ fs_meta = [l \in Locations |->
                    IF inp.has_meta /\ l = Destination(inp.argv) THEN "old" ELSE "none"]
    /\ tub_i = 0 /\ rec_i = 0 /\ heap = <<>>
    /\ augmented_records = <<>> /\ stage_records = <<>>
    /\ it = 0 /\ k = 0 /\ put_i = 0 /\ new_tub = <<>> /\ i = 0 /\ dots = 0
    /\ expansions = <<>>
    /\ HarnessIdle

\* ---------------------------------------------------------------- the script

\* Lines 183-203: argparse takes any integer for a count or an amount and None
\* for a --tub that is not given; nothing is validated.
Main ==
    /\ pc = "main"
    /\ args' = inp.argv
    /\ pc' = "augment"
    /\ UNCHANGED <<inp, err, fs_dirs, fs_meta, tub_i, rec_i, heap, augmented_records,
                   stage_records, it, k, put_i, new_tub, i, dots,
                   expansions, call, ret, draw>>

\* new_data_dir of lines 74-79: the path tested and created at lines 83-84.
new_data_dir(a, in) == IF a.dest = "aug" THEN RelativeAug(in) ELSE "dest"
\* new_data_dir_full of lines 74-79: the path of meta.json and of the new tub.
new_data_dir_full(a) == IF a.dest = "aug" THEN "sibling" ELSE "dest"

\* Lines 70-94.  TubGroup(None) raises; makedirs creates new_data_dir;
\* copyfile raises when the directory of its target does not exist.
AugmentSetup ==
    /\ pc = "augment"
    /\ LET made == fs_dirs \cup {new_data_dir(args, inp)}
           full == new_data_dir_full(args)
       IN IF args.tub = <<>>
          THEN /\ pc' = "error" /\ err' = "AttributeError"
               /\ UNCHANGED <<fs_dirs, fs_meta, tub_i, rec_i, i>>
          ELSE IF fs_meta[full] # "none"
          THEN /\ pc' = "loop" /\ fs_dirs' = made
               /\ tub_i' = 1 /\ rec_i' = 0 /\ i' = 0
               /\ UNCHANGED <<err, fs_meta>>
          ELSE IF full \in made
          THEN /\ pc' = "loop" /\ fs_dirs' = made
               /\ fs_meta' = [fs_meta EXCEPT ![full] = TubMeta(args.tub[1])]
               /\ tub_i' = 1 /\ rec_i' = 0 /\ i' = 0
               /\ UNCHANGED err
          ELSE /\ pc' = "error" /\ err' = "FileNotFoundError"
               /\ fs_dirs' = made
               /\ UNCHANGED <<fs_meta, tub_i, rec_i, i>>
    /\ UNCHANGED <<inp, args, heap, augmented_records, stage_records, it, k, put_i,
                   new_tub, dots, expansions, call, ret, draw>>

\* tubgroup.tubs in reverse.
TubAtReversed(n) == args.tub[Len(args.tub) + 1 - n]

\* tubgroup.tubs[n - 1]: the tubs in the order --tub names them.
TubAt(n) == args.tub[n]

\* Whether the loops of lines 95-96 have a record left (every tub of the
\* disk holds at least one).
MoreRecords == rec_i < TubLen(TubAt(tub_i)) \/ tub_i < Len(args.tub)

\* Lines 95-97 and 42: the next record in the order of the tubs and,
\* unshuffled, of the index; the arrays of the last record are garbage.
GetRecord ==
    /\ pc = "loop" /\ MoreRecords
    /\ LET same == rec_i < TubLen(TubAt(tub_i))
           t == IF same THEN tub_i ELSE tub_i + 1
           ix == IF same THEN rec_i + 1 ELSE 1
           labels == SourceLabels(TubAt(t), ix)
       IN /\ tub_i' = t /\ rec_i' = ix
          /\ heap' = <<SourceImage(TubAt(t), ix)>>
          /\ augmented_records' =
                <<[image |-> [buf |-> 1, rev |-> FALSE],
                   angle |-> labels.angle, throttle |-> labels.throttle,
                   made |-> [op |-> "source", parent |-> 0]]>>
    /\ stage_records' = <<>> /\ it' = 1 /\ k' = 0 /\ put_i' = 0
    /\ pc' = "flip"
    /\ UNCHANGED <<inp, err, args, fs_dirs, fs_meta, new_tub, i, dots, expansions,
                   call, ret, draw>>

\* An exception nothing handles ends the run.
Crash(e) ==
    /\ pc' = "error" /\ err' = e
    /\ UNCHANGED <<heap, augmented_records, stage_records, it, k>>

\* Lines 43-44.
FlipStage ==
    /\ pc = "flip"
    /\ IF args.flip
       THEN LET res == flip(heap, augmented_records[1])
            IN IF res.err # "none" THEN Crash(res.err)
               ELSE /\ heap' = res.heap
                    /\ augmented_records' = Append(augmented_records,
                            [res.record EXCEPT !.made = [op |-> "flip", parent |-> 1]])
                    /\ pc' = "dark"
                    /\ UNCHANGED <<err, stage_records, it, k>>
       ELSE /\ pc' = "dark"
            /\ UNCHANGED <<err, heap, augmented_records, stage_records, it, k>>
    /\ UNCHANGED <<inp, args, fs_dirs, fs_meta, tub_i, rec_i, put_i, new_tub, i, dots,
                   expansions, call, ret, draw>>

\* The loops of a stage exchanged: every parent gets its first variant, then
\* every parent its second.
StageCallVariantMajor(res, op, count) ==
    /\ IF res.err # "none" THEN Crash(res.err)
       ELSE /\ heap' = res.heap
            /\ stage_records' = Append(stage_records,
                    [res.record EXCEPT !.made = [op |-> op, parent |-> it]])
            /\ IF it < Len(augmented_records) THEN k' = k /\ it' = it + 1
               ELSE IF k + 1 < count THEN k' = k + 1 /\ it' = 1
               ELSE k' = 0 /\ it' = Len(augmented_records) + 1
            /\ UNCHANGED <<pc, err, augmented_records>>
    /\ UNCHANGED <<inp, args, fs_dirs, fs_meta, tub_i, rec_i, put_i, new_tub, i, dots,
                   expansions, call, ret, draw>>

\* One pass of the body of a stage's inner loop: the variant joins the
\* stage's own list, and the loops move on.
StageCall(res, op, count) ==
    /\ IF res.err # "none" THEN Crash(res.err)
       ELSE /\ heap' = res.heap
            /\ stage_records' = Append(stage_records,
                    [res.record EXCEPT !.made = [op |-> op, parent |-> it]])
            /\ IF k + 1 < count THEN k' = k + 1 /\ it' = it
               ELSE k' = 0 /\ it' = it + 1
            /\ UNCHANGED <<pc, err, augmented_records>>
    /\ UNCHANGED <<inp, args, fs_dirs, fs_meta, tub_i, rec_i, put_i, new_tub, i, dots,
                   expansions, call, ret, draw>>

\* A loop over the working set that stops one record early.
StageRunsShort(count) == count > 0 /\ it < Len(augmented_records)

\* Whether "for rec in augmented_records: for _ in range(count)" has a pass left.
StageRuns(count) == count > 0 /\ it <= Len(augmented_records)

\* The end of a stage: augmented_records += the stage's list.
StageDone(next) ==
    /\ augmented_records' = augmented_records \o stage_records
    /\ stage_records' = <<>> /\ it' = 1 /\ k' = 0
    /\ pc' = next
    /\ UNCHANGED <<inp, err, args, fs_dirs, fs_meta, tub_i, rec_i, heap, new_tub,
                   i, dots, call, ret, draw>>

\* Lines 47-49.
DarkCall ==
    /\ pc = "dark" /\ StageRuns(args.dark)
    /\ \E rnd \in RandInt(1, args.dark_amount) :
        StageCall(dark(heap, augmented_records[it], args.dark_amount, rnd),
                  "dark", args.dark)

\* Line 51.
DarkDone ==
    /\ pc = "dark" /\ ~StageRuns(args.dark)
    /\ StageDone("sun")
    /\ UNCHANGED <<put_i, expansions>>

\* Lines 54-56.
SunCall ==
    /\ pc = "sun" /\ StageRuns(args.sun)
    /\ \E rnd \in SunDraws(heap, augmented_records[it], args.sun_size) :
        StageCall(sun(heap, augmented_records[it], args.sun_size, rnd),
                  "sun", args.sun)

\* Line 58.
SunDone ==
    /\ pc = "sun" /\ ~StageRuns(args.sun)
    /\ StageDone("noise")
    /\ UNCHANGED <<put_i, expansions>>

\* Lines 61-63.
NoiseCall ==
    /\ pc = "noise" /\ StageRuns(args.noise)
    /\ \E rnd \in NoiseDraws(Len(heap[augmented_records[it][CAM_IMG_ARRAY].buf].data),
                            args.noise_amount) :
        StageCall(noise(heap, augmented_records[it], args.noise_amount, rnd),
                  "noise", args.noise)

\* What put_record writes of a record: its labels and the image as it is then.
Stored(h, record) ==
    [image |-> Read(h, record[CAM_IMG_ARRAY]),
     angle |-> record[USER_ANGLE], throttle |-> record[USER_THROTTLE]]

\* Lines 65-67: the list is returned to the loop of line 98.
NoiseDone ==
    /\ pc = "noise" /\ ~StageRuns(args.noise)
    /\ StageDone("put")
    /\ put_i' = 1
    /\ expansions' = Append(expansions,
            [n \in 1..Len(augmented_records') |-> Stored(heap, augmented_records'[n])])

\* The record the loop of line 98 hands to put_record at its n-th pass.
Handed(n) == augmented_records[n]

\* Lines 98-104.
PutRecord ==
    /\ pc = "put" /\ put_i <= Len(augmented_records)
    /\ new_tub' = Append(new_tub, Stored(heap, Handed(put_i)))
    /\ i' = IF i + 1 = 1000 THEN 0 ELSE i + 1
    /\ dots' = IF i + 1 = 1000 THEN dots + 1 ELSE dots
    /\ put_i' = put_i + 1
    /\ pc' = IF put_i = Len(augmented_records) THEN "loop" ELSE "put"
    /\ UNCHANGED <<inp, err, args, fs_dirs, fs_meta, tub_i, rec_i, heap,
                   augmented_records, stage_records, it, k, expansions,
                   call, ret, draw>>

\* Lines 105-110.
Finish ==
    /\ pc = "loop" /\ ~MoreRecords
    /\ pc' = "done"
    /\ UNCHANGED <<inp, err, args, fs_dirs, fs_meta, tub_i, rec_i, heap,
                   augmented_records, stage_records, it, k, put_i, new_tub, i, dots, expansions, call, ret, draw>>

Next ==
    \/ Main \/ AugmentSetup \/ GetRecord \/ FlipStage
    \/ DarkCall \/ DarkDone \/ SunCall \/ SunDone \/ NoiseCall \/ NoiseDone
    \/ PutRecord \/ Finish

Spec == Init /\ [][Next]_vars

\* ------------------------------------------------------------ the expander

\* The expansion factor of a configuration.
Factor(a) ==
    (IF a.flip THEN 2 ELSE 1) * (1 + a.dark) * (1 + a.sun) * (1 + a.noise)

NonNegativeCounts(a) == a.dark >= 0 /\ a.sun >= 0 /\ a.noise >= 0

\* The source records in traversal order: the tubs as given, each tub's
\* records by index.
Traversal(tubs) ==
    Flatten([n \in 1..Len(tubs) |-> [ix \in 1..TubLen(tubs[n]) |-> <<tubs[n], ix>>]])

\* A source record as it is stored.
SourceStored(src) ==
    [image |-> SourceImage(src[1], src[2]),
     angle |-> SourceLabels(src[1], src[2]).angle,
     throttle |-> SourceLabels(src[1], src[2]).throttle]

\* augment_single_record has returned and its list is being written.
ExpanderReturned == pc = "put"

\* C1: with no negative count, every list augment_single_record returns holds
\* (flip ? 2 : 1) * (1 + dark) * (1 + sun) * (1 + noise) records, and with no
\* flip and all counts 0 it is the source record alone, unchanged.
C1_ExpansionCount ==
    NonNegativeCounts(args) =>
        /\ \A n \in DOMAIN expansions : Len(expansions[n]) = Factor(args)
        /\ ExpanderReturned => Len(augmented_records) = Factor(args)
        /\ (~args.flip /\ args.dark = 0 /\ args.sun = 0 /\ args.noise = 0) =>
                \A n \in DOMAIN expansions :
                    expansions[n] = <<SourceStored(Traversal(args.tub)[n])>>

\* C1 witness: a list of 16 records returned under flip and all counts 1.
C1_Witness ==
    /\ ExpanderReturned /\ args.flip
    /\ args.dark = 1 /\ args.sun = 1 /\ args.noise = 1
    /\ Len(augmented_records) = 16

\* The number of variants a count asks for.
Passes(c) == IF c > 0 THEN c ELSE 0

\* How the record at position n (from 1) of the returned list was made, were
\* the list in discovery order: the source, its flip copy, the darkened
\* variants of those, the sun variants of all of these, the noise variants of
\* all before, each stage walking its predecessors in order with the count's
\* variants per parent side by side.
ExpectedMade(a, n) ==
    LET n0 == IF a.flip THEN 2 ELSE 1
        n1 == n0 * (1 + Passes(a.dark))
        n2 == n1 * (1 + Passes(a.sun))
    IN IF n = 1 THEN [op |-> "source", parent |-> 0]
       ELSE IF n <= n0 THEN [op |-> "flip", parent |-> 1]
       ELSE IF n <= n1 THEN [op |-> "dark", parent |-> (n - n0 - 1) \div a.dark + 1]
       ELSE IF n <= n2 THEN [op |-> "sun", parent |-> (n - n1 - 1) \div a.sun + 1]
       ELSE [op |-> "noise", parent |-> (n - n2 - 1) \div a.noise + 1]

\* C2: the returned list is in discovery order: the source first, then its
\* flip copy, then the dark, the sun and the noise variants, each stage made
\* from the records before it, in their order, never from its own variants.
C2_DiscoveryOrder ==
    ExpanderReturned =>
        /\ Stored(heap, augmented_records[1]) = SourceStored(<<TubAt(tub_i), rec_i>>)
        /\ \A n \in DOMAIN augmented_records :
                augmented_records[n].made = ExpectedMade(args, n)

\* C2 witness: under flip and all counts 2, the two darkened variants of the
\* source come side by side before the two of its flip copy, and the last of
\* 54 records is the second noise variant of the 18th, itself the second sun
\* variant of the 6th, the second darkened variant of the flip copy.
C2_Witness ==
    /\ ExpanderReturned /\ args.flip /\ Len(augmented_records) = 54
    /\ args.dark = 2 /\ args.sun = 2 /\ args.noise = 2
    /\ augmented_records[3].made = [op |-> "dark", parent |-> 1]
    /\ augmented_records[4].made = [op |-> "dark", parent |-> 1]
    /\ augmented_records[5].made = [op |-> "dark", parent |-> 2]
    /\ augmented_records[6].made = [op |-> "dark", parent |-> 2]
    /\ augmented_records[18].made = [op |-> "sun", parent |-> 6]
    /\ augmented_records[53].made = [op |-> "noise", parent |-> 18]
    /\ augmented_records[54].made = [op |-> "noise", parent |-> 18]

\* The records of the working set and the variants of the running stage.
Working == augmented_records \o stage_records

\* Whether the record at position n descends from the flip copy.
RECURSIVE ViaFlip(_)
ViaFlip(n) ==
    \/ Working[n].made.op = "flip"
    \/ Working[n].made.parent > 0 /\ ViaFlip(Working[n].made.parent)

\* C3: every record of an expansion has the source's throttle, and the
\* source's angle, negated when it descends from the flip copy; dark, sun and
\* noise leave both labels as they are in the record they were given.
C3_Labels ==
    \A n \in DOMAIN Working :
        LET r == Working[n]
            src == SourceLabels(TubAt(tub_i), rec_i)
        IN /\ r.throttle = src.throttle
           /\ r.angle = IF ViaFlip(n) THEN -src.angle ELSE src.angle
           /\ r.made.op \in {"dark", "sun", "noise"} =>
                /\ r.angle = Working[r.made.parent].angle
                /\ r.throttle = Working[r.made.parent].throttle

\* C3 witness: a noise variant of a sun variant of a darkened flip copy, with
\* the negated angle.
C3_Witness ==
    \E n \in DOMAIN Working :
        /\ Working[n].made.op = "noise" /\ ViaFlip(n)
        /\ Working[Working[n].made.parent].made.op = "sun"
        /\ Working[n].angle = -SourceLabels(TubAt(tub_i), rec_i).angle
        /\ Working[n].angle # 0

\* ------------------------------------------------------------ the pipeline

\* The expansions written in full: all that were returned, but the one being
\* written.
Written ==
    IF pc = "put" THEN SubSeq(expansions, 1, Len(expansions) - 1) ELSE expansions

\* C6: the destination holds the expansions of the sources in traversal
\* order, one after the other, each in full before the next source is read;
\* a run that ends has appended N * F records for N sources and factor F.
C6_OneAtATime ==
    /\ \A n \in DOMAIN expansions :
            /\ n <= Len(Traversal(args.tub))
            /\ expansions[n][1] = SourceStored(Traversal(args.tub)[n])
    /\ new_tub = Flatten(Written) \o
            (IF pc = "put" THEN SubSeq(expansions[Len(expansions)], 1, put_i - 1)
             ELSE <<>>)
    /\ pc = "done" =>
            /\ Len(expansions) = Len(Traversal(args.tub))
            /\ NonNegativeCounts(args) =>
                    Len(new_tub) = Len(Traversal(args.tub)) * Factor(args)

\* C6 witness: three sources at factor 4 have yielded 12 records.
C6_Witness ==
    /\ pc = "done" /\ Len(Traversal(args.tub)) = 3 /\ Factor(args) = 4
    /\ Len(new_tub) = 12

\* C7: once the set-up has run for a given source, the destination exists and
\* holds a copy of the first source's meta.json, or the file it held before.
C7_SetupLeavesMetadata ==
    (pc \notin {"main", "augment"} /\ args.tub # <<>> /\ NonNegativeCounts(args)) =>
        /\ Destination(args) \in fs_dirs
        /\ fs_meta[Destination(args)] =
                IF inp.has_meta THEN "old" ELSE TubMeta(args.tub[1])

\* A negative count or no source path.
ConfigurationError(a) ==
    a.dark < 0 \/ a.sun < 0 \/ a.noise < 0 \/ a.tub = <<>>

\* C8: a run with a configuration error does no I/O: it creates no directory,
\* copies no metadata, reads no record and appends none.
C8_ConfigErrorNoIO ==
    ConfigurationError(inp.argv) =>
        /\ fs_dirs = inp.dirs
        /\ \A l \in Locations : fs_meta[l] \in {"none", "old"}
        /\ tub_i = 0 /\ heap = <<>>
        /\ new_tub = <<>>

\* ------------------------------------------------------------ the library

\* The image the harness called the transform with, and the one it got back.
ImageIn == Read(call.before, call.record[CAM_IMG_ARRAY])
ImageOut == Read(heap, ret[CAM_IMG_ARRAY])

\* A signed value brought into the intensity range.
Saturated(v) == Min(255, Max(0, v))

\* The signed value the transform computes for position p before it clips:
\* the input less the drawn amount, plus the blurred mask at p's image
\* position, or plus the noise drawn for p.
Intermediate(p) ==
    CASE call.op = "dark" -> ImageIn.data[p] - draw.amt
      [] call.op = "sun" ->
            ImageIn.data[p] + draw.blur[(p - 1) \div Chan(ImageIn.shape) + 1]
      [] call.op = "noise" -> ImageIn.data[p] + draw.noise[p]

\* C4: every value of an image dark, sun or noise returns is the exact signed
\* intermediate value saturated to 0..255, never wrapped; 128 darkened by at
\* most 20 lies in 108..127.
C4_Saturation ==
    (pc = "return" /\ call.op \in {"dark", "sun", "noise"}) =>
        /\ Len(ImageOut.data) = Len(ImageIn.data)
        /\ \A p \in DOMAIN ImageIn.data :
            /\ ImageOut.data[p] = Saturated(Intermediate(p))
            /\ ImageOut.data[p] \in 0..255
            /\ (call.op = "dark" /\ call.amount = 20 /\ ImageIn.data[p] = 128) =>
                    ImageOut.data[p] \in 108..127

\* C4 witness: darkening by a drawn 20 takes 128 to 108 and a smaller value to 0.
C4_Witness ==
    /\ pc = "return" /\ call.op = "dark" /\ draw.amt = 20
    /\ \E p, q \in DOMAIN ImageIn.data :
        /\ ImageIn.data[p] = 128 /\ ImageOut.data[p] = 108
        /\ ImageIn.data[q] < draw.amt /\ ImageOut.data[q] = 0

\* C5: a transform leaves its input's array as it was and returns an image
\* that shares no storage with it.
C5_NewArrayNoMutation ==
    pc = "return" =>
        /\ heap[call.record[CAM_IMG_ARRAY].buf] = call.before[call.record[CAM_IMG_ARRAY].buf]
        /\ ret[CAM_IMG_ARRAY].buf # call.record[CAM_IMG_ARRAY].buf

\* An amount of the configuration's domain: a darkening of at least 1, a
\* noise of at least 0, any sun radius.
AmountInDomain ==
    /\ call.op = "dark" => call.amount >= 1
    /\ call.op = "noise" => call.amount >= 0

\* C9: on a 2D or 3D image every transform completes and returns an image of
\* the input's shape.
C9_CompletesSameShape ==
    (pc # "call" /\ Len(ImageIn.shape) \in {2, 3} /\ AmountInDomain) =>
        /\ pc = "return"
        /\ ImageOut.shape = ImageIn.shape

\* C10: dark and noise with amount 0 raise nothing and return the input's
\* image value for value.
C10_ZeroAmountNoOp ==
    (pc # "call" /\ call.op \in {"dark", "noise"} /\ call.amount = 0) =>
        /\ pc = "return"
        /\ ImageOut.data = ImageIn.data

====
